---- MODULE Spec2Model ----
(***************************************************************************)
(* Model of the compute-graph crate: the mutable Graph builder             *)
(* (src/src/graph.rs), the compiler (_build_for_node, compute_order,       *)
(* toposort_visit) and the executor ComputeGraph::compute                  *)
(* (src/src/com_graph.rs), with the capabilities of src/src/operations.rs  *)
(* and the type-erased wrapper of src/src/compute.rs.                      *)
(***************************************************************************)
EXTENDS Integers, Sequences, FiniteSets, TLC

(***************************************************************************)
(* Bounds of the model.                                                    *)
(***************************************************************************)
\* live nodes in the graph at one time
MaxNodes == 2
\* entries in one node's input list
MaxInputs == 2
\* insert_node calls in one run (a slot freed by remove_node is reused)
MaxInserts == 2
\* ComputeGraph values the caller holds at one time
MaxExecs == 2

(***************************************************************************)
(* Type identities (std::any::TypeId).  "unit" is TypeId::of::<()>(), the  *)
(* "no input" sentinel.                                                    *)
(***************************************************************************)
UnitType == "unit"
TypeIds == {"unit", "f64", "i32"}
\* the types a caller asks build::<In, Out>() for
RequestTypes == {"f64", "i32"}
\* the external input values, as numbers of the requested In type
InputValues == {1, 2}

\* a type-erased value (Box<dyn Any> / &dyn Any): its TypeId and its content
Val(t, v) == [ty |-> t, v |-> v]

(***************************************************************************)
(* Capabilities (implementations of Compute).                              *)
(*   Constant(v) : () -> f64        operations.rs                          *)
(*   SubInputs   : f64 -> f64       operations.rs (order-sensitive fold)   *)
(*   Count       : f64 -> i32       a user fn(&[&f64]) -> i32, compute.rs  *)
(*   Stamp       : () -> i32        a user fn(&[&()]) -> i32, compute.rs   *)
(***************************************************************************)
Constant(v) == [kind |-> "Constant", v |-> v]
SubInputs == [kind |-> "SubInputs", v |-> 0]
Count == [kind |-> "Count", v |-> 0]
Stamp == [kind |-> "Stamp", v |-> 0]

\* the capabilities insert_node is called with
InsertCaps == {Constant(2), SubInputs, Count}
\* the capabilities replace_node is called with
ReplaceCaps == {Constant(2), Constant(3), SubInputs, Count, Stamp}

\* InnerCompute::input_type
input_type(cap) ==
    IF cap.kind \in {"Constant", "Stamp"} THEN UnitType ELSE "f64"

\* InnerCompute::output_type
output_type(cap) ==
    IF cap.kind \in {"Constant", "SubInputs"} THEN "f64" ELSE "i32"

\* InnerCompute::init_output: Box::new(InnerOut::default())
init_output(cap) == Val(output_type(cap), 0)

\* SubInputs::compute: inputs.iter().fold(default, |acc, &v| *v - acc)
RECURSIVE SubFold(_, _, _)
SubFold(inputs, i, acc) ==
    IF i > Len(inputs) THEN acc
    ELSE SubFold(inputs, i + 1, inputs[i] - acc)

\* Compute::compute of each capability, on the downcast input values
compute_cap(cap, inputs) ==
    CASE cap.kind = "Constant" -> cap.v
      [] cap.kind = "SubInputs" -> SubFold(inputs, 1, 0)
      [] cap.kind = "Count" -> Len(inputs)
      [] OTHER -> 7

\* inner_compute that adds the result to the content of the output cell
inner_compute_accumulate(cap, inputs, output) ==
    IF \E i \in 1..Len(inputs) : inputs[i].ty # input_type(cap)
    THEN [tag |-> "panic"]
    ELSE IF output.ty # output_type(cap)
    THEN [tag |-> "panic"]
    ELSE [tag |-> "ok",
          val |-> Val(output_type(cap),
                      output.v +
                      compute_cap(cap, [i \in 1..Len(inputs) |-> inputs[i].v]))]

\* InnerCompute::inner_compute: downcast every input to InnerIn (unwrap),
\* downcast the output cell to InnerOut (unwrap), store the result.
\* "panic" when a downcast fails.
inner_compute(cap, inputs, output) ==
    IF \E i \in 1..Len(inputs) : inputs[i].ty # input_type(cap)
    THEN [tag |-> "panic"]
    ELSE IF output.ty # output_type(cap)
    THEN [tag |-> "panic"]
    ELSE [tag |-> "ok",
          val |-> Val(output_type(cap),
                      compute_cap(cap, [i \in 1..Len(inputs) |-> inputs[i].v]))]

(***************************************************************************)
(* State of one Graph.                                                     *)
(***************************************************************************)
VARIABLES
    slot_version,  \* SlotMap slots: version of each slot (odd = occupied)
    free_list,     \* SlotMap free list, head first
    nodes,         \* SlotMap contents: live GraphKey -> Node
    type_names,    \* the TypeIds registered in Graph::type_names
    output_node,   \* Option<GraphKey>
    id,            \* Graph::id
    last,          \* the last call: the operation and the value it returned
    execs          \* the ComputeGraph values the caller holds, oldest first

vars == <<slot_version, free_list, nodes, type_names, output_node, id, last,
          execs>>
graph == <<slot_version, free_list, nodes, type_names, output_node, id>>

None == [none |-> TRUE]
Some(k) == [none |-> FALSE, key |-> k]

\* the values Graph::id can take: the address of the nodes field in new()
GraphIds == {100, 200}

\* the name the n-th insert_node call gives its node
NodeName(n) == <<"n1", "n2", "n3", "n4", "n5">>[n]

\* a GraphKey: slot index and slot version
Key(i, v) == <<i, v>>
LiveKeys == DOMAIN nodes
\* every key this graph has issued so far, live or removed
OccupiedVersions == {2 * n - 1 : n \in 1..(MaxInserts + 1)}
IssuedKeys ==
    {k \in (1..Len(slot_version)) \X OccupiedVersions :
        k[2] <= slot_version[k[1]]}

\* a NodeHandle; own is a ghost field: TRUE iff this Graph instance issued it
Handle(k, g, o) == [key |-> k, graph_id |-> g, own |-> o]
OwnHandles == {Handle(k, id, TRUE) : k \in IssuedKeys}
\* handles issued by another Graph instance: a clone (same id, derive Clone)
\* or a graph made by another Graph::new() (any address)
ForeignHandles == {Handle(k, g, FALSE) : k \in IssuedKeys, g \in GraphIds}

Node(name, inputs, inner, flag) ==
    [name |-> name, inputs |-> inputs, inner |-> inner,
     connected_to_input |-> flag]

\* Graph::verify_graphid: panics unless the ids agree
verify_graphid(h) == h.graph_id = id

\* Graph::_get_name
get_name_(k) ==
    IF k \in LiveKeys THEN [tag |-> "Ok", name |-> nodes[k].name]
    ELSE [tag |-> "NodeMissing"]

\* Vec::retain that drops the first occurrence only
RECURSIVE RetainAfterFirst(_, _)
RetainAfterFirst(s, k) ==
    IF s = <<>> THEN <<>>
    ELSE IF Head(s) = k THEN Tail(s)
    ELSE <<Head(s)>> \o RetainAfterFirst(Tail(s), k)

\* Vec::retain(|key| *key != k)
RECURSIVE Retain(_, _)
Retain(s, k) ==
    IF s = <<>> THEN <<>>
    ELSE IF Head(s) = k THEN Retain(Tail(s), k)
    ELSE <<Head(s)>> \o Retain(Tail(s), k)

Panic == [tag |-> "panic"]
Ok == [tag |-> "Ok"]

\* the last call: which operation, and the value it returned
Call(op, res) == [op |-> op, res |-> res]

Init ==
    /\ slot_version = <<>>
    /\ free_list = <<>>
    /\ nodes = <<>>
    /\ type_names = {}
    /\ output_node = None
    /\ id = 100
    /\ last = Call("new", Ok)
    /\ execs = <<>>

NumInserts ==
    LET RECURSIVE Sum(_)
        Sum(i) == IF i = 0 THEN 0
                  ELSE ((slot_version[i] + 1) \div 2) + Sum(i - 1)
    IN Sum(Len(slot_version))

\* insert_node on a slot map without versions: a freed slot gives out the
\* key it gave out before
insert_node_same_version(name, cap) ==
    /\ Cardinality(LiveKeys) < MaxNodes
    /\ LET key == IF free_list # <<>>
                  THEN Key(Head(free_list), slot_version[Head(free_list)] - 1)
                  ELSE Key(Len(slot_version) + 1, 1)
           node == Node(name, <<>>, cap, TRUE)
       IN /\ slot_version' =
                IF free_list # <<>>
                THEN [slot_version EXCEPT ![key[1]] = key[2]]
                ELSE Append(slot_version, 1)
          /\ free_list' = IF free_list # <<>> THEN Tail(free_list) ELSE <<>>
          /\ nodes' = [k \in LiveKeys \cup {key} |->
                         IF k = key THEN node ELSE nodes[k]]
          /\ type_names' = type_names \cup {input_type(cap), output_type(cap)}
          /\ last' = Call("insert_node",
                           [tag |-> "Ok", handle |-> Handle(key, id, TRUE)])
    /\ UNCHANGED <<output_node, id>>

\* Graph::insert_node, with SlotMap::insert: reuse the head of the free list
\* with its version made odd, else push a new slot of version 1
insert_node(name, cap) ==
    /\ Cardinality(LiveKeys) < MaxNodes
    /\ LET key == IF free_list # <<>>
                  THEN Key(Head(free_list), slot_version[Head(free_list)] + 1)
                  ELSE Key(Len(slot_version) + 1, 1)
           node == Node(name, <<>>, cap, TRUE)
       IN /\ slot_version' =
                IF free_list # <<>>
                THEN [slot_version EXCEPT ![key[1]] = key[2]]
                ELSE Append(slot_version, 1)
          /\ free_list' = IF free_list # <<>> THEN Tail(free_list) ELSE <<>>
          /\ nodes' = [k \in LiveKeys \cup {key} |->
                         IF k = key THEN node ELSE nodes[k]]
          /\ type_names' = type_names \cup {input_type(cap), output_type(cap)}
          /\ last' = Call("insert_node",
                           [tag |-> "Ok", handle |-> Handle(key, id, TRUE)])
    /\ UNCHANGED <<output_node, id>>

\* remove_node that leaves the input lists of the other nodes as they are
remove_node_keep_edges(h) ==
    /\ IF ~verify_graphid(h)
       THEN /\ UNCHANGED graph
            /\ last' = Call("remove_node", Panic)
       ELSE /\ IF h.key \in LiveKeys
               THEN /\ slot_version' =
                        [slot_version EXCEPT ![h.key[1]] = h.key[2] + 1]
                    /\ free_list' = <<h.key[1]>> \o free_list
               ELSE UNCHANGED <<slot_version, free_list>>
            /\ nodes' = [k \in LiveKeys \ {h.key} |-> nodes[k]]
            /\ UNCHANGED <<type_names, output_node, id>>
            /\ last' = Call("remove_node", Ok)

\* Graph::remove_node, with SlotMap::remove: a live key frees its slot (the
\* version becomes even, the slot becomes the head of the free list), a
\* stale key removes nothing; then the key is stripped from every input list
remove_node(h) ==
    /\ IF ~verify_graphid(h)
       THEN /\ UNCHANGED graph
            /\ last' = Call("remove_node", Panic)
       ELSE /\ IF h.key \in LiveKeys
               THEN /\ slot_version' =
                        [slot_version EXCEPT ![h.key[1]] = h.key[2] + 1]
                    /\ free_list' = <<h.key[1]>> \o free_list
               ELSE UNCHANGED <<slot_version, free_list>>
            /\ nodes' = [k \in LiveKeys \ {h.key} |->
                           [nodes[k] EXCEPT !.inputs = Retain(@, h.key)]]
            /\ UNCHANGED <<type_names, output_node, id>>
            /\ last' = Call("remove_node", Ok)

\* the registered name of a type, as type_names.get(..) finds it
type_name(t) == IF t \in type_names THEN t ELSE "unknown type"

\* type_errors that stops at the first mismatch (else if)
type_errors_first_only(old, new) ==
    IF input_type(new) # input_type(old)
    THEN <<<<"input", type_name(input_type(old)), type_name(input_type(new))>>>>
    ELSE IF output_type(new) # output_type(old)
    THEN <<<<"output", type_name(output_type(old)),
             type_name(output_type(new))>>>>
    ELSE <<>>

\* type_errors that compares the input types only
type_errors_input_only(old, new) ==
    IF input_type(new) # input_type(old)
    THEN <<<<"input", type_name(input_type(old)), type_name(input_type(new))>>>>
    ELSE <<>>

\* the type_errors vector of replace_node
type_errors(old, new) ==
    (IF input_type(new) # input_type(old)
     THEN <<<<"input", type_name(input_type(old)), type_name(input_type(new))>>>>
     ELSE <<>>) \o
    (IF output_type(new) # output_type(old)
     THEN <<<<"output", type_name(output_type(old)),
              type_name(output_type(new))>>>>
     ELSE <<>>)

\* ComputeGraphErrors::format_incompatible_object: the node's name and, per
\* entry of the vector in order, the slot with its old and new type names
format_incompatible_object(name, errs) ==
    [tag |-> "IncompatibleNewNode", name |-> name, slots |-> errs]

\* ComputeGraphErrors::format_wrong_types
format_wrong_types(input_name, in_type, output_name, out_type) ==
    [tag |-> "WrongTypes",
     msg |-> <<input_name, in_type, output_name, out_type>>]

\* replace_node that also empties the node's input list
replace_node_reset_inputs(h, cap) ==
    LET call(res) == Call("replace_node", res) IN
    IF ~verify_graphid(h)
    THEN UNCHANGED graph /\ last' = call(Panic)
    ELSE IF h.key \notin LiveKeys
    THEN UNCHANGED graph /\ last' = call([tag |-> "NodeMissing"])
    ELSE IF type_errors(nodes[h.key].inner, cap) # <<>>
    THEN /\ UNCHANGED graph
         /\ last' = call(format_incompatible_object(
                            nodes[h.key].name,
                            type_errors(nodes[h.key].inner, cap)))
    ELSE /\ nodes' = [nodes EXCEPT ![h.key].inner = cap,
                                   ![h.key].inputs = <<>>]
         /\ UNCHANGED <<slot_version, free_list, type_names, output_node, id>>
         /\ last' = call(Ok)

\* Graph::replace_node
replace_node(h, cap) ==
    LET call(res) == Call("replace_node", res) IN
    IF ~verify_graphid(h)
    THEN UNCHANGED graph /\ last' = call(Panic)
    ELSE IF h.key \notin LiveKeys
    THEN UNCHANGED graph /\ last' = call([tag |-> "NodeMissing"])
    ELSE IF type_errors(nodes[h.key].inner, cap) # <<>>
    THEN /\ UNCHANGED graph
         /\ last' = call(format_incompatible_object(
                            nodes[h.key].name,
                            type_errors(nodes[h.key].inner, cap)))
    ELSE /\ nodes' = [nodes EXCEPT ![h.key].inner = cap]
         /\ UNCHANGED <<slot_version, free_list, type_names, output_node, id>>
         /\ last' = call(Ok)

\* Graph::build_node_meta
build_node_meta(k) ==
    [this_node |-> Handle(k, id, TRUE),
     inputs |-> [i \in 1..Len(nodes[k].inputs) |->
                    Handle(nodes[k].inputs[i], id, TRUE)],
     connected_to_input |-> nodes[k].connected_to_input,
     input_type |-> input_type(nodes[k].inner),
     output_type |-> output_type(nodes[k].inner)]

\* Graph::get_node_meta: unwrap() of a missing node panics
get_node_meta(h) ==
    /\ UNCHANGED graph
    /\ last' = Call("get_node_meta",
                    IF ~verify_graphid(h) \/ h.key \notin LiveKeys THEN Panic
                    ELSE [tag |-> "Ok", meta |-> build_node_meta(h.key)])

\* add_input that pushes the edge before it compares the types
add_input_push_first(h, ih) ==
    LET call(res) == Call("add_input", res) IN
    IF ~verify_graphid(h) \/ ~verify_graphid(ih)
    THEN UNCHANGED graph /\ last' = call(Panic)
    ELSE IF h.key \notin LiveKeys \/ ih.key \notin LiveKeys
    THEN UNCHANGED graph /\ last' = call(Panic)
    ELSE /\ Len(nodes[h.key].inputs) < MaxInputs
         /\ nodes' = [nodes EXCEPT
                         ![h.key].inputs = Append(@, ih.key),
                         ![h.key].connected_to_input = FALSE]
         /\ UNCHANGED <<slot_version, free_list, type_names, output_node, id>>
         /\ last' = call(
              IF input_type(nodes[h.key].inner) = output_type(nodes[ih.key].inner)
              THEN Ok
              ELSE format_wrong_types(
                     get_name_(h.key).name,
                     type_name(input_type(nodes[h.key].inner)),
                     get_name_(ih.key).name,
                     type_name(output_type(nodes[ih.key].inner))))

\* add_input that clears the flag only when the input list was empty
add_input_first_only(h, ih) ==
    LET call(res) == Call("add_input", res) IN
    IF ~verify_graphid(h) \/ ~verify_graphid(ih)
    THEN UNCHANGED graph /\ last' = call(Panic)
    ELSE IF h.key \notin LiveKeys \/ ih.key \notin LiveKeys
    THEN UNCHANGED graph /\ last' = call(Panic)
    ELSE IF input_type(nodes[h.key].inner) = output_type(nodes[ih.key].inner)
    THEN /\ Len(nodes[h.key].inputs) < MaxInputs
         /\ nodes' = [nodes EXCEPT
                         ![h.key].inputs = Append(@, ih.key),
                         ![h.key].connected_to_input =
                             IF Len(nodes[h.key].inputs) = 0 THEN FALSE ELSE @]
         /\ UNCHANGED <<slot_version, free_list, type_names, output_node, id>>
         /\ last' = call(Ok)
    ELSE /\ UNCHANGED graph
         /\ last' = call(format_wrong_types(
                            get_name_(h.key).name,
                            type_name(input_type(nodes[h.key].inner)),
                            get_name_(ih.key).name,
                            type_name(output_type(nodes[ih.key].inner))))

\* Graph::add_input: self.nodes[key] panics on a missing key
add_input(h, ih) ==
    LET call(res) == Call("add_input", res) IN
    IF ~verify_graphid(h) \/ ~verify_graphid(ih)
    THEN UNCHANGED graph /\ last' = call(Panic)
    ELSE IF h.key \notin LiveKeys \/ ih.key \notin LiveKeys
    THEN UNCHANGED graph /\ last' = call(Panic)
    ELSE IF input_type(nodes[h.key].inner) = output_type(nodes[ih.key].inner)
    THEN /\ Len(nodes[h.key].inputs) < MaxInputs
         /\ nodes' = [nodes EXCEPT
                         ![h.key].inputs = Append(@, ih.key),
                         ![h.key].connected_to_input =
                             IF @ THEN FALSE ELSE @]
         /\ UNCHANGED <<slot_version, free_list, type_names, output_node, id>>
         /\ last' = call(Ok)
    ELSE /\ UNCHANGED graph
         /\ last' = call(format_wrong_types(
                            get_name_(h.key).name,
                            type_name(input_type(nodes[h.key].inner)),
                            get_name_(ih.key).name,
                            type_name(output_type(nodes[ih.key].inner))))

\* remove_input that flags the node again when its input list gets empty
remove_input_restores_flag(h, rh) ==
    LET call(res) == Call("remove_input", res) IN
    IF ~verify_graphid(h)
    THEN UNCHANGED graph /\ last' = call(Panic)
    ELSE /\ nodes' = IF h.key \in LiveKeys
                     THEN [nodes EXCEPT
                             ![h.key].inputs = Retain(@, rh.key),
                             ![h.key].connected_to_input =
                                 IF Retain(nodes[h.key].inputs, rh.key) = <<>>
                                 THEN TRUE ELSE @]
                     ELSE nodes
         /\ UNCHANGED <<slot_version, free_list, type_names, output_node, id>>
         /\ last' = call(Ok)

\* Graph::remove_input: only the first handle is verified
remove_input(h, rh) ==
    LET call(res) == Call("remove_input", res) IN
    IF ~verify_graphid(h)
    THEN UNCHANGED graph /\ last' = call(Panic)
    ELSE /\ nodes' = IF h.key \in LiveKeys
                     THEN [nodes EXCEPT ![h.key].inputs = Retain(@, rh.key)]
                     ELSE nodes
         /\ UNCHANGED <<slot_version, free_list, type_names, output_node, id>>
         /\ last' = call(Ok)

\* Graph::get_name
get_name(h) ==
    /\ UNCHANGED graph
    /\ last' = Call("get_name",
                    IF ~verify_graphid(h) THEN Panic ELSE get_name_(h.key))

\* Graph::set_output_node
set_output_node(h) ==
    IF ~verify_graphid(h)
    THEN UNCHANGED graph /\ last' = Call("set_output_node", Panic)
    ELSE /\ output_node' = Some(h.key)
         /\ UNCHANGED <<slot_version, free_list, nodes, type_names, id>>
         /\ last' = Call("set_output_node", Ok)

\* the body shared by connect_to_input and disconnect_from_input
set_flag(op, h, flag) ==
    IF ~verify_graphid(h)
    THEN UNCHANGED graph /\ last' = Call(op, Panic)
    ELSE /\ nodes' = IF h.key \in LiveKeys
                     THEN [nodes EXCEPT ![h.key].connected_to_input = flag]
                     ELSE nodes
         /\ UNCHANGED <<slot_version, free_list, type_names, output_node, id>>
         /\ last' = Call(op, Ok)

\* Graph::connect_to_input
connect_to_input(h) == set_flag("connect_to_input", h, TRUE)

\* Graph::disconnect_from_input
disconnect_from_input(h) == set_flag("disconnect_from_input", h, FALSE)

(***************************************************************************)
(* The compiler.                                                           *)
(***************************************************************************)
\* Vec::contains
Contains(s, k) == \E i \in 1..Len(s) : s[i] = k

NoErr == [tag |-> "none"]

\* Graph::toposort_visit on the state st = [sorted, temp, err]: a node in
\* sorted_list is skipped, a node in temp_list is a cycle named after it,
\* else the node enters temp_list, its inputs are visited in listed order
\* (the first error ends the visit), it leaves temp_list and is pushed.
\* nodes.get(node).unwrap() panics on a key without a node.
RECURSIVE toposort_visit(_, _)
RECURSIVE visit_inputs(_, _, _)

\* toposort_visit that takes a node on the stack for one already ordered
toposort_visit_no_temp(node, st) ==
    IF Contains(st.sorted, node) \/ node \in st.temp THEN st
    ELSE IF node \notin LiveKeys THEN [st EXCEPT !.err = Panic]
    ELSE LET st1 == [st EXCEPT !.temp = @ \cup {node}]
             st2 == visit_inputs(nodes[node].inputs, 1, st1)
         IN IF st2.err # NoErr THEN st2
            ELSE [st2 EXCEPT !.temp = @ \ {node},
                             !.sorted = Append(@, node)]

\* toposort_visit that pushes a node before it visits the node's inputs
toposort_visit_preorder(node, st) ==
    IF Contains(st.sorted, node) THEN st
    ELSE IF node \in st.temp
    THEN [st EXCEPT !.err =
            IF node \in LiveKeys
            THEN [tag |-> "GraphCycle", name |-> nodes[node].name]
            ELSE Panic]
    ELSE IF node \notin LiveKeys THEN [st EXCEPT !.err = Panic]
    ELSE LET st1 == [st EXCEPT !.temp = @ \cup {node},
                               !.sorted = Append(@, node)]
             st2 == visit_inputs(nodes[node].inputs, 1, st1)
         IN IF st2.err # NoErr THEN st2
            ELSE [st2 EXCEPT !.temp = @ \ {node}]

\* toposort_visit that visits a node again although it is already ordered
toposort_visit_no_sorted(node, st) ==
    IF node \in st.temp
    THEN [st EXCEPT !.err =
            IF node \in LiveKeys
            THEN [tag |-> "GraphCycle", name |-> nodes[node].name]
            ELSE Panic]
    ELSE IF node \notin LiveKeys THEN [st EXCEPT !.err = Panic]
    ELSE LET st1 == [st EXCEPT !.temp = @ \cup {node}]
             st2 == visit_inputs(nodes[node].inputs, 1, st1)
         IN IF st2.err # NoErr THEN st2
            ELSE [st2 EXCEPT !.temp = @ \ {node},
                             !.sorted = Append(@, node)]

toposort_visit(node, st) ==
    IF Contains(st.sorted, node) THEN st
    ELSE IF node \in st.temp
    THEN [st EXCEPT !.err =
            IF node \in LiveKeys
            THEN [tag |-> "GraphCycle", name |-> nodes[node].name]
            ELSE Panic]
    ELSE IF node \notin LiveKeys THEN [st EXCEPT !.err = Panic]
    ELSE LET st1 == [st EXCEPT !.temp = @ \cup {node}]
             st2 == visit_inputs(nodes[node].inputs, 1, st1)
         IN IF st2.err # NoErr THEN st2
            ELSE [st2 EXCEPT !.temp = @ \ {node},
                             !.sorted = Append(@, node)]

\* the for loop of toposort_visit, with the ? of each recursive call
visit_inputs(inputs, i, st) ==
    IF i > Len(inputs) \/ st.err # NoErr THEN st
    ELSE visit_inputs(inputs, i + 1, toposort_visit(inputs[i], st))

\* Graph::compute_order
compute_order(node) ==
    toposort_visit(node, [sorted |-> <<>>, temp |-> {}, err |-> NoErr])

\* node_key_to_index of _build_for_node (positions count from 1 here)
node_key_to_index(order, k) ==
    CHOOSE i \in 1..Len(order) : order[i] = k

\* ComputeNode
ComputeNode(flag, inputs, func) ==
    [connected_to_input |-> flag, inputs |-> inputs, func |-> func]

\* ComputeGraph::new: one scratch cell per node, holding init_output()
ComputeGraph(cnodes, In, Out) ==
    [nodes |-> cnodes,
     outputs |-> [i \in 1..Len(cnodes) |-> init_output(cnodes[i].func)],
     intype |-> In, outtype |-> Out]

\* build_loop that checks the input type of every node, flagged or not
RECURSIVE build_loop_all_nodes(_, _, _, _)
build_loop_all_nodes(order, i, In, acc) ==
    IF i > Len(order) THEN acc
    ELSE LET node == nodes[order[i]]
             bad == /\ input_type(node.inner) # UnitType
                    /\ input_type(node.inner) # In
             cnode == ComputeNode(
                        node.connected_to_input,
                        [j \in 1..Len(node.inputs) |->
                            node_key_to_index(order, node.inputs[j])],
                        node.inner)
         IN IF bad
            THEN [acc EXCEPT !.err = format_wrong_types(
                        get_name_(order[i]).name,
                        type_name(input_type(node.inner)),
                        "compute input", type_name(In))]
            ELSE build_loop_all_nodes(order, i + 1, In,
                    [acc EXCEPT
                        !.nodes = Append(@, cnode),
                        !.num = IF node.connected_to_input THEN @ + 1 ELSE @])

\* build_loop without the check of a flagged node's input type against In
RECURSIVE build_loop_unchecked(_, _, _, _)
build_loop_unchecked(order, i, In, acc) ==
    IF i > Len(order) THEN acc
    ELSE LET node == nodes[order[i]]
             cnode == ComputeNode(
                        node.connected_to_input,
                        [j \in 1..Len(node.inputs) |->
                            node_key_to_index(order, node.inputs[j])],
                        node.inner)
         IN build_loop_unchecked(order, i + 1, In,
                [acc EXCEPT
                    !.nodes = Append(@, cnode),
                    !.num = IF node.connected_to_input THEN @ + 1 ELSE @])

\* the for loop of _build_for_node over compute_order, from position i on:
\* acc = [nodes, num, err]; a flagged node whose input type is neither ()
\* nor In ends the loop with WrongTypes
RECURSIVE build_loop(_, _, _, _)
build_loop(order, i, In, acc) ==
    IF i > Len(order) THEN acc
    ELSE LET node == nodes[order[i]]
             bad == /\ node.connected_to_input
                    /\ input_type(node.inner) # UnitType
                    /\ input_type(node.inner) # In
             cnode == ComputeNode(
                        node.connected_to_input,
                        [j \in 1..Len(node.inputs) |->
                            node_key_to_index(order, node.inputs[j])],
                        node.inner)
         IN IF bad
            THEN [acc EXCEPT !.err = format_wrong_types(
                        get_name_(order[i]).name,
                        type_name(input_type(node.inner)),
                        "compute input", type_name(In))]
            ELSE build_loop(order, i + 1, In,
                    [acc EXCEPT
                        !.nodes = Append(@, cnode),
                        !.num = IF node.connected_to_input THEN @ + 1 ELSE @])

\* _build_for_node that counts the flagged nodes of the whole graph
build_for_node_any_flag(key, In, Out) ==
    IF key \notin LiveKeys THEN Panic
    ELSE IF output_type(nodes[key].inner) # Out
    THEN format_wrong_types("compute output", type_name(Out),
                            get_name_(key).name,
                            type_name(output_type(nodes[key].inner)))
    ELSE LET co == compute_order(key) IN
         IF co.err # NoErr THEN co.err
         ELSE LET r == build_loop(co.sorted, 1, In,
                                  [nodes |-> <<>>, num |-> 0, err |-> NoErr])
              IN IF r.err # NoErr THEN r.err
                 ELSE IF \A k \in LiveKeys : ~nodes[k].connected_to_input
                 THEN [tag |-> "NoInputNodes"]
                 ELSE [tag |-> "Ok", exec |-> ComputeGraph(r.nodes, In, Out)]

\* Graph::_build_for_node::<In, Out>: the value it returns; self.nodes[key]
\* panics on a key without a node
build_for_node_(key, In, Out) ==
    IF key \notin LiveKeys THEN Panic
    ELSE IF output_type(nodes[key].inner) # Out
    THEN format_wrong_types("compute output", type_name(Out),
                            get_name_(key).name,
                            type_name(output_type(nodes[key].inner)))
    ELSE LET co == compute_order(key) IN
         IF co.err # NoErr THEN co.err
         ELSE LET r == build_loop(co.sorted, 1, In,
                                  [nodes |-> <<>>, num |-> 0, err |-> NoErr])
              IN IF r.err # NoErr THEN r.err
                 ELSE IF r.num = 0 THEN [tag |-> "NoInputNodes"]
                 ELSE [tag |-> "Ok", exec |-> ComputeGraph(r.nodes, In, Out)]

\* Graph::build::<In, Out>
build(In, Out) ==
    /\ UNCHANGED graph
    /\ last' = [op |-> "build", In |-> In, Out |-> Out,
                res |-> IF output_node = None THEN [tag |-> "NoOutputNode"]
                        ELSE build_for_node_(output_node.key, In, Out)]

\* build_for_node that designates its root as the output node
build_for_node_sets_output(h, In, Out) ==
    /\ output_node' = IF verify_graphid(h) THEN Some(h.key) ELSE output_node
    /\ UNCHANGED <<slot_version, free_list, nodes, type_names, id>>
    /\ last' = [op |-> "build_for_node", handle |-> h, In |-> In, Out |-> Out,
                res |-> IF ~verify_graphid(h) THEN Panic
                        ELSE build_for_node_(h.key, In, Out)]

\* Graph::build_for_node::<In, Out>
build_for_node(h, In, Out) ==
    /\ UNCHANGED graph
    /\ last' = [op |-> "build_for_node", handle |-> h, In |-> In, Out |-> Out,
                res |-> IF ~verify_graphid(h) THEN Panic
                        ELSE build_for_node_(h.key, In, Out)]

(***************************************************************************)
(* The executor.                                                           *)
(***************************************************************************)
\* compute_loop with the external input handed over before the inputs' cells
RECURSIVE compute_loop_ext_first(_, _, _, _)
compute_loop_ext_first(cnodes, outputs, i, input) ==
    IF i > Len(cnodes) THEN [tag |-> "ok", outputs |-> outputs]
    ELSE LET node == cnodes[i]
             inp == [j \in 1..Len(node.inputs) |-> outputs[node.inputs[j]]]
             inp_refs == IF node.connected_to_input
                         THEN <<input>> \o inp ELSE inp
             r == IF input_type(node.func) = UnitType
                  THEN inner_compute(node.func, <<>>, outputs[i])
                  ELSE inner_compute(node.func, inp_refs, outputs[i])
         IN IF r.tag = "panic" THEN Panic
            ELSE compute_loop_ext_first(cnodes, [outputs EXCEPT ![i] = r.val],
                                        i + 1, input)

\* the for loop of ComputeGraph::compute from position i on, over the
\* scratch cells outputs: cell i is borrowed mutably, so reading it as an
\* input panics (RefCell); a node of input type () is computed on no
\* inputs, any other on the cells of its inputs in listed order followed,
\* if it is flagged, by the external input
RECURSIVE compute_loop(_, _, _, _)
compute_loop(cnodes, outputs, i, input) ==
    IF i > Len(cnodes) THEN [tag |-> "ok", outputs |-> outputs]
    ELSE LET node == cnodes[i]
             inp == [j \in 1..Len(node.inputs) |-> outputs[node.inputs[j]]]
             inp_refs == IF node.connected_to_input
                         THEN Append(inp, input) ELSE inp
             r == IF input_type(node.func) = UnitType
                  THEN inner_compute(node.func, <<>>, outputs[i])
                  ELSE IF \E j \in 1..Len(node.inputs) : node.inputs[j] = i
                  THEN Panic
                  ELSE inner_compute(node.func, inp_refs, outputs[i])
         IN IF r.tag = "panic" THEN Panic
            ELSE compute_loop(cnodes, [outputs EXCEPT ![i] = r.val],
                              i + 1, input)

\* ComputeGraph::compute(&input): the scratch cells it leaves and the value
\* it returns, the last cell downcast to Out (unwrap)
compute(exec, x) ==
    LET r == compute_loop(exec.nodes, exec.outputs, 1, Val(exec.intype, x))
    IN IF r.tag = "panic" THEN Panic
       ELSE IF r.outputs[Len(r.outputs)].ty # exec.outtype THEN Panic
       ELSE [tag |-> "ok", value |-> r.outputs[Len(r.outputs)].v,
             outputs |-> r.outputs]

\* a held executor, with the key it was compiled for
Held(exec, root) == [exec |-> exec, root |-> root]

\* held executors that follow the builder: each is compiled again from the
\* nodes the call leaves, when that compile succeeds
executors_follow_graph ==
    LET again(e) ==
            CHOOSE n \in
                {IF build_for_node_(k, In, Out)'.tag = "Ok"
                 THEN Held(build_for_node_(k, In, Out)'.exec, k)
                 ELSE e :
                    k \in {e.root}, In \in {e.exec.intype},
                    Out \in {e.exec.outtype}} : TRUE
    IN execs' = <<>> \o [i \in 1..Len(execs) |-> again(execs[i])]

\* a call on the Graph reaches no ComputeGraph: each owns its nodes, with
\* capabilities cloned at compile time, and its scratch cells
executors_untouched == UNCHANGED execs

\* every handle argument was issued by this graph
Next ==
    \/ /\ NumInserts < MaxInserts
       /\ \E cap \in InsertCaps : insert_node(NodeName(NumInserts + 1), cap)
       /\ executors_untouched
    \/ \E h \in OwnHandles : remove_node(h) /\ executors_untouched
    \/ \E h \in OwnHandles, cap \in ReplaceCaps :
          replace_node(h, cap) /\ executors_untouched
    \/ \E h \in OwnHandles : get_node_meta(h) /\ executors_untouched
    \/ \E h \in OwnHandles, ih \in OwnHandles :
          add_input(h, ih) /\ executors_untouched
    \/ \E h \in OwnHandles, rh \in OwnHandles :
          remove_input(h, rh) /\ executors_untouched
    \/ \E h \in OwnHandles : get_name(h) /\ executors_untouched
    \/ \E h \in OwnHandles : set_output_node(h) /\ executors_untouched
    \/ \E h \in OwnHandles : connect_to_input(h) /\ executors_untouched
    \/ \E h \in OwnHandles : disconnect_from_input(h) /\ executors_untouched
    \/ \E In \in RequestTypes, Out \in RequestTypes :
          build(In, Out) /\ executors_untouched
    \/ \E h \in OwnHandles, In \in RequestTypes, Out \in RequestTypes :
          build_for_node(h, In, Out) /\ executors_untouched

Spec == Init /\ [][Next]_vars

\* the handles of this graph and those issued by other Graph instances
AnyHandles == OwnHandles \cup ForeignHandles

\* handle arguments may also come from other Graph instances
NextForeign ==
    \/ /\ NumInserts < MaxInserts
       /\ \E cap \in InsertCaps : insert_node(NodeName(NumInserts + 1), cap)
       /\ executors_untouched
    \/ \E h \in AnyHandles : remove_node(h) /\ executors_untouched
    \/ \E h \in AnyHandles, cap \in ReplaceCaps :
          replace_node(h, cap) /\ executors_untouched
    \/ \E h \in AnyHandles : get_node_meta(h) /\ executors_untouched
    \/ \E h \in AnyHandles, ih \in AnyHandles :
          add_input(h, ih) /\ executors_untouched
    \/ \E h \in AnyHandles, rh \in AnyHandles :
          remove_input(h, rh) /\ executors_untouched
    \/ \E h \in AnyHandles : get_name(h) /\ executors_untouched
    \/ \E h \in AnyHandles : set_output_node(h) /\ executors_untouched
    \/ \E h \in AnyHandles : connect_to_input(h) /\ executors_untouched
    \/ \E h \in AnyHandles : disconnect_from_input(h) /\ executors_untouched
    \/ \E In \in RequestTypes, Out \in RequestTypes :
          build(In, Out) /\ executors_untouched
    \/ \E h \in AnyHandles, In \in RequestTypes, Out \in RequestTypes :
          build_for_node(h, In, Out) /\ executors_untouched

SpecForeign == Init /\ [][NextForeign]_vars

(***************************************************************************)
(* The caller keeps the executors it compiles, computes on them and clones *)
(* them while it goes on calling the builder.                              *)
(***************************************************************************)
\* the scratch cells a compute call leaves behind: the loop of compute
\* writes cell after cell and stops where a node aborts
scratch_left(exec, x) ==
    LET run(n) == compute_loop(SubSeq(exec.nodes, 1, n), exec.outputs, 1,
                               Val(exec.intype, x))
        n == CHOOSE m \in 0..Len(exec.nodes) :
                /\ run(m).tag = "ok"
                /\ m = Len(exec.nodes) \/ run(m + 1).tag # "ok"
    IN run(n).outputs

\* let exec = graph.build_for_node::<In, Out>(&h): the caller keeps the
\* ComputeGraph of an Ok
build_for_node_kept(h, In, Out) ==
    /\ Len(execs) < MaxExecs
    /\ build_for_node(h, In, Out)
    /\ execs' = IF last'.res.tag = "Ok"
                THEN Append(execs, Held(last'.res.exec, h.key))
                ELSE execs

\* let exec = graph.build::<In, Out>(): the caller keeps the ComputeGraph
\* of an Ok
build_kept(In, Out) ==
    /\ Len(execs) < MaxExecs
    /\ build(In, Out)
    /\ execs' = IF last'.res.tag = "Ok"
                THEN Append(execs, Held(last'.res.exec, output_node.key))
                ELSE execs

\* execs[i].compute(&x): the scratch cells are overwritten, the value of the
\* last cell is returned
exec_compute(i, x) ==
    /\ execs' = [execs EXCEPT
                    ![i].exec.outputs = scratch_left(execs[i].exec, x)]
    /\ last' = Call("compute",
                    IF compute(execs[i].exec, x).tag = "ok"
                    THEN [tag |-> "ok",
                          value |-> compute(execs[i].exec, x).value]
                    ELSE Panic)
    /\ UNCHANGED graph

\* Clone for ComputeGraph: ComputeGraph::new on a clone of the nodes, so
\* the scratch cells start from init_output() again
exec_clone(i) ==
    /\ Len(execs) < MaxExecs
    /\ execs' = Append(execs,
                       Held(ComputeGraph(execs[i].exec.nodes,
                                         execs[i].exec.intype,
                                         execs[i].exec.outtype),
                            execs[i].root))
    /\ last' = Call("clone", Ok)
    /\ UNCHANGED graph

\* the capabilities the caller of this scenario inserts and installs
ExecInsertCaps == {Constant(2), SubInputs}
ExecReplaceCaps == {Constant(3)}

\* the caller compiles one executor, keeps it and goes on changing the
\* builder
NextSnapshot ==
    \/ /\ NumInserts < MaxInserts
       /\ \E cap \in ExecInsertCaps :
             insert_node(NodeName(NumInserts + 1), cap)
       /\ executors_untouched
    \/ \E h \in OwnHandles : remove_node(h) /\ executors_untouched
    \/ \E h \in OwnHandles, cap \in ExecReplaceCaps :
          replace_node(h, cap) /\ executors_untouched
    \/ \E h \in OwnHandles, ih \in OwnHandles :
          add_input(h, ih) /\ executors_untouched
    \/ \E h \in OwnHandles, rh \in OwnHandles :
          remove_input(h, rh) /\ executors_untouched
    \/ \E h \in OwnHandles : set_output_node(h) /\ executors_untouched
    \/ \E h \in OwnHandles :
          connect_to_input(h) /\ executors_untouched
    \/ \E h \in OwnHandles :
          disconnect_from_input(h) /\ executors_untouched
    \/ /\ execs = <<>>
       /\ \E h \in OwnHandles, In \in RequestTypes, Out \in RequestTypes :
             build_for_node_kept(h, In, Out)
    \/ /\ execs = <<>>
       /\ \E In \in RequestTypes, Out \in RequestTypes : build_kept(In, Out)

SpecSnapshot == Init /\ [][NextSnapshot]_vars

\* the caller sets the builder up, then compiles and clones executors from
\* the builder as it stands and computes on them in any order
NextScratch ==
    \/ /\ execs = <<>>
       /\ NumInserts < MaxInserts
       /\ \E cap \in ExecInsertCaps :
             insert_node(NodeName(NumInserts + 1), cap)
       /\ executors_untouched
    \/ /\ execs = <<>>
       /\ \E h \in OwnHandles : remove_node(h) /\ executors_untouched
    \/ /\ execs = <<>>
       /\ \E h \in OwnHandles, cap \in ExecReplaceCaps :
             replace_node(h, cap) /\ executors_untouched
    \/ /\ execs = <<>>
       /\ \E h \in OwnHandles, ih \in OwnHandles :
             add_input(h, ih) /\ executors_untouched
    \/ /\ execs = <<>>
       /\ \E h \in OwnHandles, rh \in OwnHandles :
             remove_input(h, rh) /\ executors_untouched
    \/ /\ execs = <<>>
       /\ \E h \in OwnHandles : set_output_node(h) /\ executors_untouched
    \/ /\ execs = <<>>
       /\ \E h \in OwnHandles : connect_to_input(h) /\ executors_untouched
    \/ /\ execs = <<>>
       /\ \E h \in OwnHandles :
             disconnect_from_input(h) /\ executors_untouched
    \/ \E h \in OwnHandles, In \in RequestTypes, Out \in RequestTypes :
          build_for_node_kept(h, In, Out)
    \/ \E In \in RequestTypes, Out \in RequestTypes : build_kept(In, Out)
    \/ \E i \in DOMAIN execs, x \in InputValues : exec_compute(i, x)
    \/ \E i \in DOMAIN execs : exec_clone(i)

SpecScratch == Init /\ [][NextScratch]_vars

(***************************************************************************)
(* Reachability over input edges, computed from the input lists alone.     *)
(***************************************************************************)
\* the keys listed as inputs of the nodes of S
InputsOf(S) ==
    UNION {{nodes[k].inputs[i] : i \in 1..Len(nodes[k].inputs)} :
             k \in S \cap LiveKeys}

RECURSIVE Closure(_)
Closure(S) == IF InputsOf(S) \subseteq S THEN S ELSE Closure(S \cup InputsOf(S))

\* the transitive input closure of root, root included
ClosureOf(root) == Closure({root})

\* k lies on a directed cycle of input edges (a self-edge included)
OnCycle(k) == k \in Closure(InputsOf({k}))

Acyclic(root) == \A k \in ClosureOf(root) : ~OnCycle(k)

\* the reference evaluation of node n on the external input x
RECURSIVE Eval(_, _)
Eval(n, x) ==
    LET node == nodes[n] IN
    IF input_type(node.inner) = UnitType THEN compute_cap(node.inner, <<>>)
    ELSE compute_cap(node.inner,
            [i \in 1..Len(node.inputs) |-> Eval(node.inputs[i], x)] \o
            (IF node.connected_to_input THEN <<x>> ELSE <<>>))

BuildOps == {"build", "build_for_node"}

\* the last call was a compile: build::<In, Out>() with a designated output
\* node or build_for_node::<In, Out>(handle) with a handle of this graph
Compiled ==
    /\ last.op \in BuildOps
    /\ last.op = "build" => output_node # None
    /\ last.op = "build_for_node" => last.handle.own

\* the key that compile was rooted at
Root == IF last.op = "build" THEN output_node.key ELSE last.handle.key

C2_CycleReported ==
    (/\ Compiled
     /\ Root \in LiveKeys
     /\ output_type(nodes[Root].inner) = last.Out
     /\ ~Acyclic(Root)) =>
        /\ last.res.tag = "GraphCycle"
        /\ \E k \in ClosureOf(Root) :
              OnCycle(k) /\ nodes[k].name = last.res.name

\* a compile reported a cycle from a root that is not on the cycle itself
C2_Witness ==
    /\ Compiled
    /\ last.res.tag = "GraphCycle"
    /\ Root \in LiveKeys
    /\ ~OnCycle(Root)

\* some flagged node of root's closure takes an input type that is neither
\* () nor In
BadFlagged(root, In) ==
    \E k \in ClosureOf(root) :
        /\ nodes[k].connected_to_input
        /\ input_type(nodes[k].inner) \notin {UnitType, In}

(***************************************************************************)
(* C3: a compile of an existing root returns WrongTypes when the root's    *)
(* output type differs from the requested Out, and, the root matching and  *)
(* its closure being acyclic, when some flagged node of the closure has an *)
(* input type that is neither () nor the requested In; nothing else        *)
(* (unflagged nodes, nodes outside the closure) yields WrongTypes.         *)
(***************************************************************************)
C3_CompileTypeCheck ==
    (Compiled /\ Root \in LiveKeys) =>
        (last.res.tag = "WrongTypes" <=>
            \/ output_type(nodes[Root].inner) # last.Out
            \/ Acyclic(Root) /\ BadFlagged(Root, last.In))

\* WrongTypes came from a flagged node other than the root, whose output
\* type matched, while the root itself is not flagged
C3_Witness ==
    /\ Compiled
    /\ last.res.tag = "WrongTypes"
    /\ Root \in LiveKeys
    /\ output_type(nodes[Root].inner) = last.Out
    /\ ~nodes[Root].connected_to_input

(***************************************************************************)
(* C4: add_input(dest, source) on two live nodes where source's output     *)
(* type differs from dest's input type returns WrongTypes and changes      *)
(* nothing in the builder: no input list, no flag, no capability, not the  *)
(* output designation.                                                     *)
(***************************************************************************)
C4_AddInputMismatch ==
    [][last'.op = "add_input" =>
        \A d \in OwnHandles, s \in OwnHandles :
            (/\ d.key \in LiveKeys /\ s.key \in LiveKeys
             /\ output_type(nodes[s.key].inner) # input_type(nodes[d.key].inner)
             /\ add_input(d, s))
            => /\ last'.res.tag = "WrongTypes"
               /\ nodes' = nodes
               /\ output_node' = output_node
               /\ UNCHANGED <<slot_version, free_list, type_names, id>>]_vars

\* add_input was refused with WrongTypes in a graph that has an edge
C4_Witness ==
    /\ last.op = "add_input"
    /\ last.res.tag = "WrongTypes"
    /\ \E k \in LiveKeys : nodes[k].inputs # <<>>

(***************************************************************************)
(* C5, as claimed: a successful add_input(dest, source) appends source to  *)
(* dest's input list and clears dest's flag only when dest had no input    *)
(* before; when dest had one, the flag keeps its value.                    *)
(***************************************************************************)
C5_FlagClearedFirstTimeOnly ==
    [][(last'.op = "add_input" /\ last'.res.tag = "Ok") =>
        \A d \in OwnHandles, s \in OwnHandles :
            add_input(d, s) =>
                /\ nodes'[d.key].inputs = Append(nodes[d.key].inputs, s.key)
                /\ nodes'[d.key].connected_to_input =
                      IF nodes[d.key].inputs = <<>> THEN FALSE
                      ELSE nodes[d.key].connected_to_input]_vars

(***************************************************************************)
(* C5, amended: a successful add_input(dest, source) appends source to     *)
(* dest's input list and leaves dest's flag false, whatever the flag and   *)
(* the input list were before the call.                                    *)
(***************************************************************************)
C5_FlagClearedEveryTime ==
    [][(last'.op = "add_input" /\ last'.res.tag = "Ok") =>
        \A d \in OwnHandles, s \in OwnHandles :
            add_input(d, s) =>
                /\ nodes'[d.key].inputs = Append(nodes[d.key].inputs, s.key)
                /\ ~nodes'[d.key].connected_to_input]_vars

\* add_input succeeded on a node that already had an input: it has two now
C5_Witness ==
    /\ last.op = "add_input"
    /\ last.res.tag = "Ok"
    /\ \E k \in LiveKeys :
          Len(nodes[k].inputs) = 2 /\ ~nodes[k].connected_to_input

\* the slots a replacement of old by new mismatches in, input first
MismatchedSlots(old, new) ==
    (IF input_type(new) # input_type(old) THEN <<"input">> ELSE <<>>) \o
    (IF output_type(new) # output_type(old) THEN <<"output">> ELSE <<>>)

(***************************************************************************)
(* C6: replace_node(handle, new) on a live node where new's input or       *)
(* output type differs from the installed capability's returns             *)
(* IncompatibleNewNode listing exactly the mismatched slots, and the node  *)
(* keeps its capability, name, input list and flag.                        *)
(***************************************************************************)
C6_ReplaceMismatch ==
    [][last'.op = "replace_node" =>
        \A h \in OwnHandles, cap \in ReplaceCaps :
            (/\ h.key \in LiveKeys
             /\ MismatchedSlots(nodes[h.key].inner, cap) # <<>>
             /\ replace_node(h, cap))
            => /\ last'.res.tag = "IncompatibleNewNode"
               /\ [i \in 1..Len(last'.res.slots) |-> last'.res.slots[i][1]]
                     = MismatchedSlots(nodes[h.key].inner, cap)
               /\ h.key \in DOMAIN nodes'
               /\ nodes'[h.key] = nodes[h.key]]_vars

\* a replacement was refused for both of its slots
C6_Witness ==
    /\ last.op = "replace_node"
    /\ last.res.tag = "IncompatibleNewNode"
    /\ Len(last.res.slots) = 2

(***************************************************************************)
(* C7: replace_node(handle, new) on a live node where new's input and      *)
(* output types equal the installed capability's returns Ok and changes    *)
(* that node's capability only (name, input list, flag, the other nodes    *)
(* and the output designation stay), and an executor compiled afterwards   *)
(* carries, at every position, the capability installed in that node at    *)
(* the time of the compile, so the replaced node runs its new capability.  *)
(***************************************************************************)
C7_ReplaceMatch ==
    /\ [][last'.op = "replace_node" =>
            \A h \in OwnHandles, cap \in ReplaceCaps :
                (/\ h.key \in LiveKeys
                 /\ MismatchedSlots(nodes[h.key].inner, cap) = <<>>
                 /\ replace_node(h, cap))
                => /\ last'.res.tag = "Ok"
                   /\ nodes' = [nodes EXCEPT ![h.key].inner = cap]
                   /\ UNCHANGED <<slot_version, free_list, type_names,
                                  output_node, id>>]_vars
    /\ []((Compiled /\ last.res.tag = "Ok") =>
            LET order == compute_order(Root).sorted IN
            /\ Len(last.res.exec.nodes) = Len(order)
            /\ \A i \in 1..Len(order) :
                  last.res.exec.nodes[i].func = nodes[order[i]].inner)

\* an executor compiled after a replacement: it runs Constant(3), which no
\* insert_node call installs, as an input of its root
C7_Witness ==
    /\ Compiled
    /\ last.res.tag = "Ok"
    /\ Len(last.res.exec.nodes) = 2
    /\ last.res.exec.nodes[1].func = Constant(3)
    /\ last.res.exec.nodes[2].inputs # <<>>
    /\ compute(last.res.exec, 1).value # 0

C9_RemovedNodeIsNodeMissing ==
    [][/\ last'.op = "add_input" =>
            \A d \in OwnHandles, s \in OwnHandles :
                (/\ d.key \notin LiveKeys \/ s.key \notin LiveKeys
                 /\ add_input(d, s))
                => last'.res.tag = "NodeMissing" /\ UNCHANGED graph
       /\ last'.op = "build_for_node" =>
            \A h \in OwnHandles, In \in RequestTypes, Out \in RequestTypes :
                (h.key \notin LiveKeys /\ build_for_node(h, In, Out))
                => last'.res.tag = "NodeMissing" /\ UNCHANGED graph
       /\ last'.op = "build" =>
            \A In \in RequestTypes, Out \in RequestTypes :
                (/\ output_node # None
                 /\ output_node.key \notin LiveKeys
                 /\ build(In, Out))
                => last'.res.tag = "NodeMissing" /\ UNCHANGED graph]_vars

(***************************************************************************)
(* C10: every builder operation that takes node handles aborts, changing   *)
(* no state, when one of its handle arguments was issued by another Graph  *)
(* instance (a graph of another Graph::new() call, or a clone).            *)
(***************************************************************************)
C10_ForeignHandleAborts ==
    [][\A f \in ForeignHandles :
        (\/ remove_node(f)
         \/ \E cap \in ReplaceCaps : replace_node(f, cap)
         \/ get_node_meta(f)
         \/ \E o \in AnyHandles :
               \/ add_input(f, o) \/ add_input(o, f)
               \/ remove_input(f, o) \/ remove_input(o, f)
         \/ get_name(f)
         \/ set_output_node(f)
         \/ connect_to_input(f)
         \/ disconnect_from_input(f)
         \/ \E In \in RequestTypes, Out \in RequestTypes :
               build_for_node(f, In, Out))
        => last'.res.tag = "panic" /\ UNCHANGED graph]_vars

(***************************************************************************)
(* C11: when the root exists, its output type is the requested Out, its    *)
(* transitive input closure is acyclic and no node of the closure is       *)
(* flagged, build / build_for_node returns NoInputNodes, whatever the      *)
(* flags of the nodes outside the closure.                                 *)
(***************************************************************************)
C11_NoInputNodes ==
    (/\ Compiled
     /\ Root \in LiveKeys
     /\ output_type(nodes[Root].inner) = last.Out
     /\ Acyclic(Root)
     /\ \A k \in ClosureOf(Root) : ~nodes[k].connected_to_input) =>
        last.res.tag = "NoInputNodes"

\* NoInputNodes was returned although a node outside the root's closure is
\* flagged
C11_Witness ==
    /\ Compiled
    /\ last.res.tag = "NoInputNodes"
    /\ \E k \in LiveKeys \ ClosureOf(Root) : nodes[k].connected_to_input

\* the set of the entries of a sequence
Range(s) == {s[i] : i \in 1..Len(s)}

C13_BuildLeavesBuilder ==
    [][last'.op \in BuildOps =>
        /\ DOMAIN nodes' = DOMAIN nodes
        /\ \A k \in DOMAIN nodes :
              /\ nodes'[k].name = nodes[k].name
              /\ nodes'[k].inputs = nodes[k].inputs
              /\ nodes'[k].connected_to_input = nodes[k].connected_to_input
              /\ nodes'[k].inner = nodes[k].inner
        /\ type_names' = type_names
        /\ output_node' = output_node]_vars

\* build_for_node returned an executor for a root other than the designated
\* output node, whose compile fails
C13_Witness ==
    /\ last.op = "build_for_node"
    /\ last.res.tag = "Ok"
    /\ output_node # None
    /\ output_node.key \in LiveKeys
    /\ output_node.key # last.handle.key
    /\ build_for_node_(output_node.key, last.In, last.Out).tag # "Ok"

\* the calls that change the builder
MutatorOps ==
    {"insert_node", "remove_node", "replace_node", "add_input",
     "remove_input", "connect_to_input", "disconnect_from_input",
     "set_output_node"}

(***************************************************************************)
(* C14: an executor is a snapshot: a call that changes the builder         *)
(* (insert_node, remove_node, replace_node, add_input, remove_input,       *)
(* connect_to_input, disconnect_from_input, set_output_node) leaves every  *)
(* executor compiled before it in place, and what compute(x) does on it    *)
(* is the same after the call as before, for every x.                      *)
(***************************************************************************)
C14_ExecutorIsSnapshot ==
    [][last'.op \in MutatorOps =>
        \A i \in DOMAIN execs :
            /\ i \in DOMAIN execs'
            /\ \A x \in InputValues :
                  compute(execs'[i].exec, x) = compute(execs[i].exec, x)]_vars

\* after a call on the builder, compiling again for the same root and types
\* gives an executor that returns another value than the one held
C14_Witness ==
    /\ execs # <<>>
    /\ last.op \in MutatorOps
    /\ LET e == execs[1]
           r == build_for_node_(e.root, e.exec.intype, e.exec.outtype)
       IN /\ r.tag = "Ok"
          /\ compute(r.exec, 1).value # compute(e.exec, 1).value

(***************************************************************************)
(* C15: two executors held at once that were compiled from the same        *)
(* unmutated builder for the same root and type parameters, by two         *)
(* compiles or by a clone, return the same value for the same input, and   *)
(* the value an executor returns for x is the one it returns on fresh      *)
(* scratch cells, whatever compute calls were made before on it or on the  *)
(* other executor.                                                         *)
(***************************************************************************)
C15_ScratchIndependence ==
    \A i \in DOMAIN execs, x \in InputValues :
        LET e == execs[i].exec IN
        /\ compute(e, x).tag = "ok"
        /\ compute(e, x).value =
              compute(ComputeGraph(e.nodes, e.intype, e.outtype), x).value
        /\ \A j \in DOMAIN execs :
              (/\ execs[j].root = execs[i].root
               /\ execs[j].exec.intype = e.intype
               /\ execs[j].exec.outtype = e.outtype)
              => compute(execs[j].exec, x).value = compute(e, x).value

\* two executors of two nodes for the same root and types, whose value
\* depends on the external input, after compute calls that left every
\* scratch cell of one differing from the other's
C15_Witness ==
    /\ Len(execs) = 2
    /\ last.op = "compute"
    /\ execs[1].root = execs[2].root
    /\ execs[1].exec.intype = execs[2].exec.intype
    /\ execs[1].exec.outtype = execs[2].exec.outtype
    /\ Len(execs[1].exec.nodes) = 2
    /\ \A c \in 1..2 : execs[1].exec.outputs[c] # execs[2].exec.outputs[c]
    /\ execs[2].exec.outputs[2].v # 0
    /\ compute(execs[1].exec, 1).value # compute(execs[1].exec, 2).value

C17_HandlesStable ==
    [][/\ \A k \in IssuedKeys \ LiveKeys : k \notin DOMAIN nodes'
       /\ \A k \in LiveKeys :
             k \in DOMAIN nodes' => nodes'[k].name = nodes[k].name
       /\ last'.op = "get_name" =>
             \A h \in OwnHandles :
                 (h.key \notin LiveKeys /\ get_name(h))
                 => last'.res.tag = "NodeMissing"
       /\ last'.op = "replace_node" =>
             \A h \in OwnHandles, cap \in ReplaceCaps :
                 (h.key \notin LiveKeys /\ replace_node(h, cap))
                 => last'.res.tag = "NodeMissing"
       /\ last'.op \notin {"insert_node", "get_name", "replace_node"} =>
             \A h \in OwnHandles :
                 h.key \notin LiveKeys =>
                     ((\/ remove_node(h)
                       \/ get_node_meta(h)
                       \/ set_output_node(h)
                       \/ connect_to_input(h)
                       \/ disconnect_from_input(h)
                       \/ \E o \in OwnHandles :
                             \/ add_input(h, o) \/ add_input(o, h)
                             \/ remove_input(h, o) \/ remove_input(o, h)
                       \/ \E In \in RequestTypes, Out \in RequestTypes :
                             build_for_node(h, In, Out))
                      => nodes' = nodes)]_vars

\* get_name on a removed node's handle returned NodeMissing while the slot
\* of that node holds a node inserted later
C17_Witness ==
    /\ last.op = "get_name"
    /\ last.res.tag = "NodeMissing"
    /\ \E k \in LiveKeys : k[2] > 1

(***************************************************************************)
(* C18: in every executor a compile returns, the positions a node lists as *)
(* its inputs are smaller than the node's own position and the last        *)
(* position holds the root; so compute reads only cells written earlier    *)
(* in the same call and no node reads the cell it writes.                  *)
(***************************************************************************)
C18_PipelineOrder ==
    (Compiled /\ last.res.tag = "Ok") =>
        LET cn == last.res.exec.nodes
            order == compute_order(Root).sorted
        IN /\ \A i \in 1..Len(cn) :
                 \A j \in 1..Len(cn[i].inputs) :
                     cn[i].inputs[j] \in 1..(i - 1)
           /\ Len(cn) = Len(order)
           /\ order[Len(order)] = Root
           /\ cn[Len(cn)].func = nodes[Root].inner
           /\ cn[Len(cn)].inputs =
                 [j \in 1..Len(nodes[Root].inputs) |->
                     node_key_to_index(order, nodes[Root].inputs[j])]

\* an executor whose last node, the root, reads the cell of the node before
\* it, for a root that was inserted before its input
C18_Witness ==
    /\ Compiled
    /\ last.res.tag = "Ok"
    /\ Len(last.res.exec.nodes) = 2
    /\ last.res.exec.nodes[2].inputs = <<1>>
    /\ \E k \in LiveKeys : k[1] > Root[1]

(***************************************************************************)
(* Builders that never call connect_to_input or disconnect_from_input.     *)
(***************************************************************************)
NextDefault ==
    \/ /\ NumInserts < MaxInserts
       /\ \E cap \in InsertCaps : insert_node(NodeName(NumInserts + 1), cap)
       /\ executors_untouched
    \/ \E h \in OwnHandles : remove_node(h) /\ executors_untouched
    \/ \E h \in OwnHandles, cap \in ReplaceCaps :
          replace_node(h, cap) /\ executors_untouched
    \/ \E h \in OwnHandles, ih \in OwnHandles :
          add_input(h, ih) /\ executors_untouched
    \/ \E h \in OwnHandles, rh \in OwnHandles :
          remove_input(h, rh) /\ executors_untouched
    \/ \E h \in OwnHandles, In \in RequestTypes, Out \in RequestTypes :
          build_for_node(h, In, Out) /\ executors_untouched

SpecDefault == Init /\ [][NextDefault]_vars

(***************************************************************************)
(* C19: in a builder on which connect_to_input and disconnect_from_input   *)
(* were never called, a node is flagged exactly when its input list is     *)
(* empty, so a compile sends the external input to every node of the       *)
(* pipeline that has no other inputs and an input type other than ().      *)
(***************************************************************************)
C19_FlaggedIffNoInputs ==
    /\ \A k \in LiveKeys :
          nodes[k].connected_to_input <=> nodes[k].inputs = <<>>
    /\ (last.op = "build_for_node" /\ last.res.tag = "Ok") =>
          \A i \in 1..Len(last.res.exec.nodes) :
              LET cn == last.res.exec.nodes[i] IN
              (cn.inputs = <<>> /\ input_type(cn.func) # UnitType)
              => cn.connected_to_input

\* some node of the pipeline is handed the external input by compute: it
\* is flagged and its input type is not ()
InputReaches(exec) ==
    \E i \in 1..Len(exec.nodes) :
        /\ exec.nodes[i].connected_to_input
        /\ input_type(exec.nodes[i].func) # UnitType

(***************************************************************************)
(* C20: whenever build / build_for_node returns Ok, some node of the       *)
(* pipeline is handed the external input during compute; a pipeline in     *)
(* which no node is in that position, such as one whose only flagged nodes *)
(* have input type (), is refused with NoInputNodes.                       *)
(***************************************************************************)
C20_InputReachesPipeline ==
    Compiled =>
        /\ last.res.tag = "Ok" => InputReaches(last.res.exec)
        /\ (/\ Root \in LiveKeys
            /\ output_type(nodes[Root].inner) = last.Out
            /\ Acyclic(Root)
            /\ ~BadFlagged(Root, last.In)
            /\ \A k \in ClosureOf(Root) :
                  ~(/\ nodes[k].connected_to_input
                    /\ input_type(nodes[k].inner) # UnitType))
           => last.res.tag = "NoInputNodes"

\* the values compute hands to the capability of node i of exec on the
\* scratch cells outputs and the external input x: none for a node of
\* input type (), else the cells of its inputs, then x if it is flagged
Handed(exec, outputs, i, x) ==
    LET node == exec.nodes[i] IN
    IF input_type(node.func) = UnitType THEN <<>>
    ELSE [j \in 1..Len(node.inputs) |-> outputs[node.inputs[j]]] \o
         (IF node.connected_to_input THEN <<Val(exec.intype, x)>> ELSE <<>>)

(***************************************************************************)
(* C21: on every executor a compile returns, whatever builder calls came   *)
(* before, compute is type-safe: it does not abort, every value handed to  *)
(* a node's capability has the capability's input type, every scratch      *)
(* cell holds a value of its node's output type before and after the       *)
(* call, and the last cell has the requested Out type.                     *)
(***************************************************************************)
C21_ComputeTypeSafe ==
    (Compiled /\ last.res.tag = "Ok") =>
        LET exec == last.res.exec IN
        /\ exec.intype = last.In /\ exec.outtype = last.Out
        /\ \A i \in 1..Len(exec.nodes) :
              exec.outputs[i].ty = output_type(exec.nodes[i].func)
        /\ \A x \in InputValues :
              LET r == compute(exec, x) IN
              /\ r.tag = "ok"
              /\ \A i \in 1..Len(exec.nodes) :
                    /\ r.outputs[i].ty = output_type(exec.nodes[i].func)
                    /\ \A j \in 1..Len(Handed(exec, r.outputs, i, x)) :
                          Handed(exec, r.outputs, i, x)[j].ty =
                             input_type(exec.nodes[i].func)
              /\ r.outputs[Len(r.outputs)].ty = last.Out

\* an executor from f64 to i32 whose root is handed the f64 cell of its
\* input and the external input, after a capability was replaced
C21_Witness ==
    /\ Compiled
    /\ last.res.tag = "Ok"
    /\ last.In = "f64" /\ last.Out = "i32"
    /\ Len(last.res.exec.nodes) = 2
    /\ last.res.exec.nodes[1].func = Constant(3)
    /\ Len(Handed(last.res.exec, compute(last.res.exec, 1).outputs, 2, 1)) = 2

(***************************************************************************)
(* C22: edge type-consistency is an invariant of the builder: in every     *)
(* state any sequence of insert_node, remove_node, replace_node,           *)
(* add_input, remove_input, connect_to_input, disconnect_from_input and    *)
(* set_output_node calls reaches, for every entry s of the input list of   *)
(* every node d, the output type of s's capability is the input type of    *)
(* d's capability.                                                         *)
(***************************************************************************)
C22_EdgesTypeConsistent ==
    \A d \in LiveKeys :
        \A j \in 1..Len(nodes[d].inputs) :
            LET s == nodes[d].inputs[j] IN
            s \in LiveKeys =>
                output_type(nodes[s].inner) = input_type(nodes[d].inner)

\* a capability was replaced in a graph with an edge between two nodes, one
\* of which now runs a capability no insert_node call installs
C22_Witness ==
    /\ last.op = "replace_node"
    /\ last.res.tag = "Ok"
    /\ \E d \in LiveKeys, s \in LiveKeys :
          /\ d # s
          /\ Contains(nodes[d].inputs, s)
          /\ nodes[s].inner = Constant(3)

(***************************************************************************)
(* C23: no dangling edges: in every state any sequence of builder calls    *)
(* reaches, every entry of every live node's input list is the key of a    *)
(* node that exists, so compute_order never looks up a missing dependency: *)
(* a compile rooted at a live node does not abort.                         *)
(***************************************************************************)
C23_NoDanglingEdges ==
    /\ \A d \in LiveKeys :
          \A j \in 1..Len(nodes[d].inputs) : nodes[d].inputs[j] \in LiveKeys
    /\ \A root \in LiveKeys : compute_order(root).err # Panic

\* remove_node returned and left a single node, of input type f64, with an
\* empty input list and a cleared flag: the node it once listed is gone and
\* its slot is free
C23_Witness ==
    /\ last.op = "remove_node"
    /\ last.res.tag = "Ok"
    /\ free_list # <<>>
    /\ Cardinality(LiveKeys) = 1
    /\ \A d \in LiveKeys :
          /\ nodes[d].inputs = <<>>
          /\ ~nodes[d].connected_to_input
          /\ input_type(nodes[d].inner) = "f64"
          /\ compute_order(d).sorted = <<d>>
====
